---- MODULE Spec2Model ----
(***************************************************************************)
(* Model of utils/ocr_extractor.py: the timeout() runner, the PDF pipeline *)
(* (embedded text, rasterization, per-page OCR fan-out, fallback race) and  *)
(* the image race.  One call of extract_text is followed from entry to its  *)
(* return or raise, through the extractor it dispatches to.  Rasterizer,    *)
(* recognizer, pdfplumber and Image.open are black boxes: each call returns *)
(* a value, raises, finishes after its deadline, or never finishes.         *)
(*                                                                         *)
(* Strings are sequences of tokens: single characters, and one token for    *)
(* each literal piece of a marker, placeholder or error message.            *)
(***************************************************************************)
EXTENDS Integers, Sequences, FiniteSets, TLC

\* Longest word the recognizer or pdfplumber produces.
MaxWord == 2
\* Most pages a document has.
MaxDocPages == 3
\* last_page=3 of the primary rasterization, pdf.pages[:3].
LastPage == 3
\* last_page=1 of the fallback rasterization.
FallbackLastPage == 1
\* len(configs)
NumConfigs == 4

Min(a, b) == IF a < b THEN a ELSE b

------------------------------------------------------------------------------
(* Strings *)

NL == "\n"
SP == " "
IsSpace(c) == c \in {SP, NL}

RECURSIVE LStrip(_)
LStrip(s) ==
    IF s = <<>> THEN s
    ELSE IF IsSpace(Head(s)) THEN LStrip(Tail(s)) ELSE s

RECURSIVE RStrip(_)
RStrip(s) ==
    IF s = <<>> THEN s
    ELSE IF IsSpace(s[Len(s)]) THEN RStrip(SubSeq(s, 1, Len(s) - 1)) ELSE s

\* str.strip()
strip(s) == RStrip(LStrip(s))

\* "\n".join(parts)
RECURSIVE JoinNL(_)
JoinNL(parts) ==
    IF parts = <<>> THEN <<>>
    ELSE IF Len(parts) = 1 THEN parts[1]
    ELSE parts[1] \o <<NL>> \o JoinNL(Tail(parts))

\* needle in text, for a one-token needle
Contains(text, tok) == \E i \in 1..Len(text) : text[i] = tok

Rep(c, k) == [i \in 1..k |-> c]

\* What a recognizer call may return: blank texts, bare words, padded words.
OcrTexts ==
    {<<>>, <<SP>>}
        \cup {Rep("a", k) : k \in 1..MaxWord}
        \cup {<<SP>> \o Rep("b", k) \o <<NL>> : k \in 1..MaxWord}

\* What page.extract_text() may return; None is modelled by its `or ""` value.
EmbeddedPageTexts == {<<>>, <<SP>>, <<"a">>, <<SP, "b", NL>>}

PageNo == <<"1", "2", "3">>
TimeoutPlaceholder == "[OCR timeout - page skipped]"

\* f"--- Page {page_number} ---\n{text.strip()}"
PageText(page_number, text) ==
    <<"--- Page ", PageNo[page_number], " ---", NL>> \o strip(text)

\* f"--- Page {page_number} ---\n[OCR timeout - page skipped]"
PageSkippedBad(page_number) ==
    <<"--- Page ", PageNo[1], " ---", NL, TimeoutPlaceholder>>
PageSkipped(page_number) ==
    <<"--- Page ", PageNo[page_number], " ---", NL, TimeoutPlaceholder>>

FallbackFailedText ==
    <<"--- Page 1 ---", NL,
      "[Text extraction failed - please try a different document format]">>
FallbackUnableText == <<"--- Page 1 ---", NL, "[Unable to extract text]">>

\* the value of the return statement of extract_from_pdf_fallback
FallbackTextBad(best) ==
    <<"--- Page 1 (Fallback Method) ---", NL>> \o strip(best)
FallbackText(best) ==
    IF strip(best) # <<>>
    THEN <<"--- Page 1 (Fallback Method) ---", NL>> \o strip(best)
    ELSE FallbackUnableText

\* key=lambda t: len(t.strip())
Key(t) == Len(strip(t))

\* max(results, key=...): the first element whose key is greatest
RECURSIVE MaxFrom(_, _, _)
MaxFrom(s, i, b) ==
    IF i > Len(s) THEN b
    ELSE MaxFrom(s, i + 1, IF Key(s[i]) > Key(b) THEN s[i] ELSE b)

RECURSIVE MaxFromLast(_, _, _)
MaxFromLast(s, i, b) ==
    IF i > Len(s) THEN b
    ELSE MaxFromLast(s, i + 1, IF Key(s[i]) >= Key(b) THEN s[i] ELSE b)

PyMaxLast(s) == MaxFromLast(s, 2, s[1])
PyMax(s) == MaxFrom(s, 2, s[1])

------------------------------------------------------------------------------
(* Outcomes of a call, and of a function *)

NoOutcome == [oc |-> "none", text |-> <<>>]
Returned(t) == [oc |-> "return", text |-> t]
Raised(msg) == [oc |-> "raise", text |-> <<msg>>]
TimedOut == [oc |-> "timeout", text |-> <<>>]

------------------------------------------------------------------------------
(* timeout(): one `with timeout(seconds) as run` block and a run() in it.   *)
(* st is where the caller is: idle, waiting in Future.result(timeout),      *)
(* joining in ThreadPoolExecutor.__exit__ (shutdown(wait=True)) with the    *)
(* TimeoutError in flight, or left.  work is the submitted function.        *)

IdleRun == [st |-> "idle", work |-> "none"]
\* executor.submit(func, ...).result(timeout=seconds)
Submit(hangs) == [st |-> "waiting", work |-> IF hangs THEN "hung" ELSE "running"]
\* the work completes before the deadline: run() returns or re-raises, and
\* the executor's shutdown finds its worker idle
CanFinishInTime(r) == r.st = "waiting" /\ r.work = "running"
FinishInTime(r) == [st |-> "left", work |-> "finished"]
\* the deadline elapses first: TimeoutError is raised in the with body, and
\* leaving the body enters the executor's __exit__, which joins the worker
CanExpire(r) == r.st = "waiting" /\ r.work \in {"running", "hung"}
ExpireNoJoin(r) == [st |-> "left", work |-> r.work]
Expire(r) == [st |-> "joining", work |-> r.work]
\* the abandoned work completes and the join returns
CanFinishLate(r) == r.st = "joining" /\ r.work = "running"
FinishLate(r) == [st |-> "left", work |-> "finished"]

\* What the work may raise: an exception of its own kind, or an instance of
\* concurrent.futures.TimeoutError (the builtin TimeoutError from Python 3.11
\* on, which the operating system raises for ETIMEDOUT).
WorkErrors == {"error", "concurrent.futures.TimeoutError"}
\* except concurrent.futures.TimeoutError: raise TimeoutError(...), around
\* result(): whether run() raises the module's TimeoutError for exception e
\* of the work
ReportedAsTimeout(e) == e = "concurrent.futures.TimeoutError"

------------------------------------------------------------------------------
(* State *)

VARIABLES
    kind,           \* what extract_text is given: a "pdf", "image" or "docx"
                    \* file, an "unsupported" extension, or a "missing" path
    top,            \* outcome of extract_text
    docx_o,         \* outcome of docx2txt.process
    pc,             \* where the calling thread is
    embedded,       \* outcome of the embedded-text attempt
    rast,           \* the timeout(60) block of extract_from_pdf
    rast_o,         \* outcome of its run(convert_from_path, ...)
    images,         \* len(images) in extract_from_pdf
    page,           \* the process_pdf_page tasks of executor.map, by page number
    results,        \* results in extract_from_pdf
    page_skipped,   \* some process_pdf_page returned the timeout placeholder
    frast,          \* the timeout(90) block of extract_from_pdf_fallback
    frast_o,        \* outcome of its run(convert_from_path, ...)
    iopen,          \* the timeout(30) block of extract_from_image
    iopen_o,        \* outcome of its run(Image.open, ...)
    cfg,            \* the run_ocr_config tasks of executor.map, by config index
    cresults,       \* results in extract_from_pdf_fallback / extract_from_image
    best_text,      \* best_text there
    fb_ret,         \* outcome of extract_from_pdf_fallback
    ret,            \* outcome of extract_from_pdf / extract_from_image
    invoked         \* collaborators and pipelines invoked so far

vars == <<kind, top, docx_o, pc, embedded, rast, rast_o, images, page, results, page_skipped,
          frast, frast_o,
          iopen, iopen_o, cfg, cresults, best_text, fb_ret, ret, invoked>>

Pages == 1..LastPage
Configs == 1..NumConfigs

\* A task of an executor.map: not submitted, pending in the work queue,
\* running its function, done with a value, raised, or cancelled.
NoTask == [pc |-> "none", run |-> IdleRun, o1 |-> NoOutcome, o2 |-> NoOutcome,
           res |-> NoOutcome]
PendingTask == [NoTask EXCEPT !.pc = "pending"]

Finished(t) == t.pc \in {"none", "done", "raised", "cancelled"}

\* The result iterator of executor.map re-raises a task's exception, and its
\* finally clause cancels the futures that are still pending.
CancelPending(tasks) ==
    [i \in DOMAIN tasks |->
        IF tasks[i].pc = "pending" THEN [tasks[i] EXCEPT !.pc = "cancelled"]
        ELSE tasks[i]]

pdf_vars == <<embedded, rast, rast_o, images, page, results, page_skipped>>
fb_vars == <<frast, frast_o, fb_ret>>
img_vars == <<iopen, iopen_o>>
race_vars == <<cfg, cresults, best_text>>

Init ==
    /\ kind \in {"pdf", "image", "docx", "unsupported", "missing"}
    /\ top = NoOutcome
    /\ docx_o = NoOutcome
    /\ pc = "start"
    /\ embedded = NoOutcome
    /\ rast = IdleRun
    /\ rast_o = NoOutcome
    /\ images = 0
    /\ page = [i \in Pages |-> NoTask]
    /\ results = <<>>
    /\ page_skipped = FALSE
    /\ frast = IdleRun
    /\ frast_o = NoOutcome
    /\ iopen = IdleRun
    /\ iopen_o = NoOutcome
    /\ cfg = [i \in Configs |-> NoTask]
    /\ cresults = <<>>
    /\ best_text = <<>>
    /\ fb_ret = NoOutcome
    /\ ret = NoOutcome
    /\ invoked = {}

------------------------------------------------------------------------------
(* extract_from_pdf *)

\* the handlers of the outer try
PdfOnTimeout == Raised("PDF processing timed out")
PdfOnError == Raised("Failed to extract text from PDF")

\* "\n".join([page.extract_text() or "" for page in pdf.pages[:3]])
EmbeddedText(texts) == JoinNL(texts)

\* return embedded_text
EmbeddedReturnBad(embedded_text) == Returned(strip(embedded_text))
EmbeddedReturn(embedded_text) == Returned(embedded_text)

\* The embedded-text attempt: pdfplumber raises (caught and logged), or
\* yields the text of the first pages; non-blank text is returned at once.
\* A blank embedded_text is not read again and is kept as "blank".
PdfEmbeddedSurfaces ==
    /\ kind = "pdf" /\ pc = "start"
    /\ \/ /\ embedded' = Raised("pdfplumber")
          /\ pc' = "done"
          /\ ret' = PdfOnError
       \/ \E m \in 0..Min(MaxDocPages, LastPage) :
          \E texts \in [1..m -> EmbeddedPageTexts] :
            LET embedded_text == EmbeddedText(texts) IN
            IF strip(embedded_text) # <<>>
            THEN /\ embedded' = Returned(embedded_text)
                 /\ ret' = EmbeddedReturn(embedded_text)
                 /\ pc' = "done"
            ELSE /\ embedded' = [oc |-> "blank", text |-> <<>>]
                 /\ pc' = "pdf_convert"
                 /\ ret' = ret
    /\ UNCHANGED <<kind, top, docx_o, rast, rast_o, images, page, results, invoked, page_skipped>>
    /\ UNCHANGED <<fb_vars, img_vars, race_vars>>
PdfEmbedded ==
    /\ kind = "pdf" /\ pc = "start"
    /\ \/ /\ embedded' = Raised("pdfplumber")
          /\ pc' = "pdf_convert"
          /\ ret' = ret
       \/ \E m \in 0..Min(MaxDocPages, LastPage) :
          \E texts \in [1..m -> EmbeddedPageTexts] :
            LET embedded_text == EmbeddedText(texts) IN
            IF strip(embedded_text) # <<>>
            THEN /\ embedded' = Returned(embedded_text)
                 /\ ret' = EmbeddedReturn(embedded_text)
                 /\ pc' = "done"
            ELSE /\ embedded' = [oc |-> "blank", text |-> <<>>]
                 /\ pc' = "pdf_convert"
                 /\ ret' = ret
    /\ UNCHANGED <<kind, top, docx_o, rast, rast_o, images, page, results, invoked, page_skipped>>
    /\ UNCHANGED <<fb_vars, img_vars, race_vars>>

\* run(convert_from_path, file_path, first_page=1, last_page=3, ...)
PdfConvertSubmit ==
    /\ pc = "pdf_convert"
    /\ \E hangs \in BOOLEAN : rast' = Submit(hangs)
    /\ pc' = "pdf_convert_wait"
    /\ invoked' = invoked \cup {"convert_from_path"}
    /\ UNCHANGED <<kind, top, docx_o, embedded, rast_o, images, page, results, ret, page_skipped>>
    /\ UNCHANGED <<fb_vars, img_vars, race_vars>>

\* convert_from_path returns in time; executor.map submits one task a page
PdfConvertReturns ==
    /\ pc = "pdf_convert_wait" /\ CanFinishInTime(rast)
    /\ \E n \in 0..Min(MaxDocPages, LastPage) :
        /\ images' = n
        /\ page' = [i \in Pages |-> IF i <= n THEN PendingTask ELSE NoTask]
    /\ rast' = FinishInTime(rast)
    /\ rast_o' = Returned(<<>>)
    /\ pc' = "pdf_map"
    /\ UNCHANGED <<kind, top, docx_o, embedded, results, ret, invoked, page_skipped>>
    /\ UNCHANGED <<fb_vars, img_vars, race_vars>>

\* convert_from_path raises in time: the outer `except Exception`, or
\* `except TimeoutError` when run() reports the exception as a timeout
PdfConvertRaisesFallsBack ==
    /\ pc = "pdf_convert_wait" /\ CanFinishInTime(rast)
    /\ rast' = FinishInTime(rast)
    /\ rast_o' = Raised("error")
    /\ pc' = "fb_convert"
    /\ invoked' = invoked \cup {"extract_from_pdf_fallback"}
    /\ UNCHANGED <<kind, top, docx_o, embedded, images, page, results, ret, page_skipped>>
    /\ UNCHANGED <<fb_vars, img_vars, race_vars>>
PdfConvertRaises ==
    /\ pc = "pdf_convert_wait" /\ CanFinishInTime(rast)
    /\ rast' = FinishInTime(rast)
    /\ \E e \in WorkErrors :
        /\ rast_o' = Raised(e)
        /\ ret' = IF ReportedAsTimeout(e) THEN PdfOnTimeout ELSE PdfOnError
    /\ pc' = "done"
    /\ UNCHANGED <<kind, top, docx_o, embedded, images, page, results, invoked, page_skipped>>
    /\ UNCHANGED <<fb_vars, img_vars, race_vars>>

\* the 60 s deadline elapses
PdfConvertDeadline ==
    /\ pc = "pdf_convert_wait" /\ CanExpire(rast)
    /\ rast' = Expire(rast)
    /\ rast_o' = TimedOut
    /\ UNCHANGED <<kind, top, docx_o, pc, embedded, images, page, results, ret, invoked, page_skipped>>
    /\ UNCHANGED <<fb_vars, img_vars, race_vars>>

\* the abandoned conversion ends; the TimeoutError reaches `except TimeoutError`
PdfConvertLate ==
    /\ pc = "pdf_convert_wait" /\ CanFinishLate(rast)
    /\ rast' = FinishLate(rast)
    /\ ret' = PdfOnTimeout
    /\ pc' = "done"
    /\ UNCHANGED <<kind, top, docx_o, embedded, rast_o, images, page, results, invoked, page_skipped>>
    /\ UNCHANGED <<fb_vars, img_vars, race_vars>>

------------------------------------------------------------------------------
(* process_pdf_page, one task of the fan-out *)

others_of_page == <<kind, top, docx_o, pc, embedded, rast, rast_o, images, results, ret>>

\* a worker thread takes the task: preprocess_image, then the primary
\* run(image_to_string, ..., config='--psm 1 ...') in the timeout(30) block
PageStart(i) ==
    /\ page[i].pc = "pending"
    /\ \E hangs \in BOOLEAN :
        page' = [page EXCEPT ![i].pc = "primary", ![i].run = Submit(hangs)]
    /\ invoked' = invoked \cup {"image_to_string"}
    /\ UNCHANGED <<others_of_page, page_skipped, fb_vars, img_vars, race_vars>>

\* the primary call returns text in time; blank text submits the secondary
\* run(image_to_string, ..., config='--psm 6 --oem 1') to the same executor
PagePrimaryReturnsNoEscalation(i) ==
    /\ page[i].pc = "primary" /\ CanFinishInTime(page[i].run)
    /\ \E text \in OcrTexts :
        page' = [page EXCEPT ![i].pc = "done",
                             ![i].o1 = Returned(text),
                             ![i].run = FinishInTime(page[i].run),
                             ![i].res = Returned(PageText(i, text))]
    /\ UNCHANGED <<others_of_page, page_skipped, invoked, fb_vars, img_vars, race_vars>>
PagePrimaryReturns(i) ==
    /\ page[i].pc = "primary" /\ CanFinishInTime(page[i].run)
    /\ \E text \in OcrTexts :
        IF strip(text) = <<>>
        THEN \E hangs \in BOOLEAN :
                page' = [page EXCEPT ![i].pc = "secondary",
                                     ![i].o1 = Returned(text),
                                     ![i].run = Submit(hangs)]
        ELSE page' = [page EXCEPT ![i].pc = "done",
                                  ![i].o1 = Returned(text),
                                  ![i].run = FinishInTime(page[i].run),
                                  ![i].res = Returned(PageText(i, text))]
    /\ UNCHANGED <<others_of_page, page_skipped, invoked, fb_vars, img_vars, race_vars>>

\* the secondary call returns text in time
PageSecondaryReturns(i) ==
    /\ page[i].pc = "secondary" /\ CanFinishInTime(page[i].run)
    /\ \E text \in OcrTexts :
        page' = [page EXCEPT ![i].pc = "done",
                             ![i].o2 = Returned(text),
                             ![i].run = FinishInTime(page[i].run),
                             ![i].res = Returned(PageText(i, text))]
    /\ UNCHANGED <<others_of_page, page_skipped, invoked, fb_vars, img_vars, race_vars>>

\* image_to_string raises in time: `except TimeoutError` does not catch it,
\* and the task ends with the exception; unless run() reports the exception
\* as a timeout, and the handler returns the placeholder
PageRaises(i) ==
    /\ page[i].pc \in {"primary", "secondary"} /\ CanFinishInTime(page[i].run)
    /\ \E e \in WorkErrors :
        /\ page' = [page EXCEPT
                      ![i].pc = IF ReportedAsTimeout(e) THEN "done" ELSE "raised",
                      ![i].o1 = IF page[i].pc = "primary"
                                THEN Raised(e) ELSE page[i].o1,
                      ![i].o2 = IF page[i].pc = "secondary"
                                THEN Raised(e) ELSE page[i].o2,
                      ![i].run = FinishInTime(page[i].run),
                      ![i].res = IF ReportedAsTimeout(e)
                                 THEN Returned(PageSkipped(i)) ELSE Raised(e)]
        /\ page_skipped' = (page_skipped \/ ReportedAsTimeout(e))
    /\ UNCHANGED <<others_of_page, invoked, fb_vars, img_vars, race_vars>>

\* the 30 s deadline of the call in progress elapses
PageDeadline(i) ==
    /\ page[i].pc \in {"primary", "secondary"} /\ CanExpire(page[i].run)
    /\ page' = [page EXCEPT
                  ![i].o1 = IF page[i].pc = "primary" THEN TimedOut ELSE page[i].o1,
                  ![i].o2 = IF page[i].pc = "secondary" THEN TimedOut ELSE page[i].o2,
                  ![i].run = Expire(page[i].run)]
    /\ UNCHANGED <<others_of_page, page_skipped, invoked, fb_vars, img_vars, race_vars>>

\* the abandoned call ends, the block is left, `except TimeoutError` returns
PageLate(i) ==
    /\ page[i].pc \in {"primary", "secondary"} /\ CanFinishLate(page[i].run)
    /\ page' = [page EXCEPT ![i].pc = "done",
                            ![i].run = FinishLate(page[i].run),
                            ![i].res = Returned(PageSkipped(i))]
    /\ page_skipped' = TRUE
    /\ UNCHANGED <<others_of_page, invoked, fb_vars, img_vars, race_vars>>

------------------------------------------------------------------------------
(* extract_from_pdf, from the fan-out on *)

\* list(executor.map(...)): the results in page order
MapResultsReversed(tasks, n) == [i \in 1..n |-> tasks[n + 1 - i].res.text]
MapResults(tasks, n) == [i \in 1..n |-> tasks[i].res.text]

\* not extracted_text.strip() or "[OCR timeout - page skipped]" in extracted_text
NeedsFallback(extracted_text) ==
    \/ strip(extracted_text) = <<>>
    \/ Contains(extracted_text, TimeoutPlaceholder)

\* list() reaches a page whose task raised: the pages before it are done
PdfMapRaise(i) ==
    /\ pc = "pdf_map"
    /\ \A j \in 1..(i - 1) : page[j].pc = "done"
    /\ page[i].pc = "raised"
    /\ page' = CancelPending(page)
    /\ pc' = "pdf_map_abort"
    /\ UNCHANGED <<kind, top, docx_o, embedded, rast, rast_o, images, results, ret, invoked, page_skipped>>
    /\ UNCHANGED <<fb_vars, img_vars, race_vars>>

\* the executor's __exit__ joins the tasks still running; `except Exception`
PdfMapAbort ==
    /\ pc = "pdf_map_abort"
    /\ \A j \in Pages : Finished(page[j])
    /\ ret' = PdfOnError
    /\ pc' = "done"
    /\ UNCHANGED <<kind, top, docx_o, embedded, rast, rast_o, images, page, results, invoked, page_skipped>>
    /\ UNCHANGED <<fb_vars, img_vars, race_vars>>

\* every page task is done with a value
PdfMapDoneEarly ==
    /\ pc = "pdf_map"
    /\ \E j \in 1..images : page[j].pc = "done"
    /\ results' = MapResults(page, images)
    /\ pc' = "pdf_joined"
    /\ UNCHANGED <<kind, top, docx_o, embedded, rast, rast_o, images, page, ret, invoked, page_skipped>>
    /\ UNCHANGED <<fb_vars, img_vars, race_vars>>
PdfMapDone ==
    /\ pc = "pdf_map"
    /\ \A j \in 1..images : page[j].pc = "done"
    /\ results' = MapResults(page, images)
    /\ pc' = "pdf_joined"
    /\ UNCHANGED <<kind, top, docx_o, embedded, rast, rast_o, images, page, ret, invoked, page_skipped>>
    /\ UNCHANGED <<fb_vars, img_vars, race_vars>>

\* extracted_text = "\n".join(results), then the test of line 90: return the
\* stripped text, or call extract_from_pdf_fallback.  Nothing reads results
\* or the joined tasks after the call, and they are cleared.
PdfDecide ==
    /\ pc = "pdf_joined"
    /\ LET extracted_text == JoinNL(results) IN
        IF NeedsFallback(extracted_text)
        THEN /\ pc' = "fb_convert"
             /\ invoked' = invoked \cup {"extract_from_pdf_fallback"}
             /\ page' = [i \in Pages |-> NoTask]
             /\ results' = <<>>
             /\ ret' = ret
        ELSE /\ ret' = Returned(strip(extracted_text))
             /\ pc' = "done"
             /\ UNCHANGED <<invoked, page, results>>
    /\ UNCHANGED <<kind, top, docx_o, embedded, rast, rast_o, images, page_skipped>>
    /\ UNCHANGED <<fb_vars, img_vars, race_vars>>

------------------------------------------------------------------------------
(* run_ocr_config, one task of a race *)

others_of_cfg == <<kind, top, docx_o, pc, cresults, best_text, ret, invoked>>

\* a worker thread takes the task: run(image_to_string, ..., config=config)
\* in the timeout(10) block
CfgStart(i) ==
    /\ cfg[i].pc = "pending"
    /\ \E hangs \in BOOLEAN :
        cfg' = [cfg EXCEPT ![i].pc = "running", ![i].run = Submit(hangs)]
    /\ invoked' = invoked \cup {"image_to_string"}
    /\ UNCHANGED <<kind, top, docx_o, pc, cresults, best_text, ret>>
    /\ UNCHANGED <<pdf_vars, fb_vars, img_vars>>

\* image_to_string returns text in time, and run_ocr_config returns it
CfgReturns(i) ==
    /\ cfg[i].pc = "running" /\ CanFinishInTime(cfg[i].run)
    /\ \E text \in OcrTexts :
        cfg' = [cfg EXCEPT ![i].pc = "done",
                           ![i].o1 = Returned(text),
                           ![i].run = FinishInTime(cfg[i].run),
                           ![i].res = Returned(text)]
    /\ UNCHANGED <<others_of_cfg, pdf_vars, fb_vars, img_vars>>

\* image_to_string raises in time: `except TimeoutError` does not catch it;
\* unless run() reports the exception as a timeout, and the handler returns ""
CfgRaises(i) ==
    /\ cfg[i].pc = "running" /\ CanFinishInTime(cfg[i].run)
    /\ \E e \in WorkErrors :
        cfg' = [cfg EXCEPT ![i].pc = IF ReportedAsTimeout(e) THEN "done" ELSE "raised",
                           ![i].o1 = Raised(e),
                           ![i].run = FinishInTime(cfg[i].run),
                           ![i].res = IF ReportedAsTimeout(e)
                                      THEN Returned(<<>>) ELSE Raised(e)]
    /\ UNCHANGED <<others_of_cfg, pdf_vars, fb_vars, img_vars>>

\* the 10 s deadline elapses
CfgDeadline(i) ==
    /\ cfg[i].pc = "running" /\ CanExpire(cfg[i].run)
    /\ cfg' = [cfg EXCEPT ![i].o1 = TimedOut, ![i].run = Expire(cfg[i].run)]
    /\ UNCHANGED <<others_of_cfg, pdf_vars, fb_vars, img_vars>>

\* the abandoned call ends, the block is left, `except TimeoutError: return ""`
CfgLate(i) ==
    /\ cfg[i].pc = "running" /\ CanFinishLate(cfg[i].run)
    /\ cfg' = [cfg EXCEPT ![i].pc = "done",
                          ![i].run = FinishLate(cfg[i].run),
                          ![i].res = Returned(<<>>)]
    /\ UNCHANGED <<others_of_cfg, pdf_vars, fb_vars, img_vars>>

\* list(executor.map(...)) reaches a configuration whose task raised
RaceRaise(i) ==
    /\ pc \in {"fb_map", "img_map"}
    /\ \A j \in 1..(i - 1) : cfg[j].pc = "done"
    /\ cfg[i].pc = "raised"
    /\ cfg' = CancelPending(cfg)
    /\ pc' = IF pc = "fb_map" THEN "fb_map_abort" ELSE "img_map_abort"
    /\ UNCHANGED <<kind, top, docx_o, cresults, best_text, ret, invoked>>
    /\ UNCHANGED <<pdf_vars, fb_vars, img_vars>>

\* every configuration's task is done with a value:
\* best_text = max(results, key=lambda t: len(t.strip()))
RaceDone ==
    /\ pc \in {"fb_map", "img_map"}
    /\ \A j \in Configs : cfg[j].pc = "done"
    /\ cresults' = MapResults(cfg, NumConfigs)
    /\ best_text' = PyMax(MapResults(cfg, NumConfigs))
    /\ pc' = IF pc = "fb_map" THEN "fb_best" ELSE "img_best"
    /\ UNCHANGED <<kind, top, docx_o, cfg, ret, invoked>>
    /\ UNCHANGED <<pdf_vars, fb_vars, img_vars>>

------------------------------------------------------------------------------
(* extract_from_pdf_fallback; extract_from_pdf returns what it returns *)

\* except Exception as e: ... return "--- Page 1 ---\n[Text extraction failed ...]"
FallbackOnErrorBad(msg) == Raised(msg)
FallbackOnError(msg) == Returned(FallbackFailedText)

\* return extract_from_pdf_fallback(file_path), inside the outer try
PdfReturnFallback(r) ==
    IF r.oc = "return" THEN r ELSE PdfOnError

\* run(convert_from_path, file_path, first_page=1, last_page=1, dpi=100, ...)
FbConvertSubmit ==
    /\ pc = "fb_convert"
    /\ \E hangs \in BOOLEAN : frast' = Submit(hangs)
    /\ pc' = "fb_convert_wait"
    /\ invoked' = invoked \cup {"convert_from_path"}
    /\ UNCHANGED <<kind, top, docx_o, frast_o, fb_ret, ret>>
    /\ UNCHANGED <<pdf_vars, img_vars, race_vars>>

\* it returns images in time; `if not images: raise`; else the race starts
FbConvertReturns ==
    /\ pc = "fb_convert_wait" /\ CanFinishInTime(frast)
    /\ frast' = FinishInTime(frast)
    /\ frast_o' = Returned(<<>>)
    /\ \E n \in 0..FallbackLastPage :
        IF n = 0
        THEN /\ fb_ret' = FallbackOnError("Could not convert PDF to image")
             /\ ret' = PdfReturnFallback(fb_ret')
             /\ pc' = "done"
             /\ cfg' = cfg
        ELSE /\ cfg' = [i \in Configs |-> PendingTask]
             /\ pc' = "fb_map"
             /\ UNCHANGED <<fb_ret, ret>>
    /\ UNCHANGED <<kind, top, docx_o, cresults, best_text, invoked>>
    /\ UNCHANGED <<pdf_vars, img_vars>>

\* it raises in time
FbConvertRaises ==
    /\ pc = "fb_convert_wait" /\ CanFinishInTime(frast)
    /\ frast' = FinishInTime(frast)
    /\ \E e \in WorkErrors :
        /\ frast_o' = Raised(e)
        /\ fb_ret' = FallbackOnError(e)
    /\ ret' = PdfReturnFallback(fb_ret')
    /\ pc' = "done"
    /\ UNCHANGED <<kind, top, docx_o, invoked>>
    /\ UNCHANGED <<pdf_vars, img_vars, race_vars>>

\* the 90 s deadline elapses
FbConvertDeadline ==
    /\ pc = "fb_convert_wait" /\ CanExpire(frast)
    /\ frast' = Expire(frast)
    /\ frast_o' = TimedOut
    /\ UNCHANGED <<kind, top, docx_o, pc, fb_ret, ret, invoked>>
    /\ UNCHANGED <<pdf_vars, img_vars, race_vars>>

\* the abandoned conversion ends; TimeoutError is an Exception
FbConvertLate ==
    /\ pc = "fb_convert_wait" /\ CanFinishLate(frast)
    /\ frast' = FinishLate(frast)
    /\ fb_ret' = FallbackOnError("PDF fallback conversion timed out")
    /\ ret' = PdfReturnFallback(fb_ret')
    /\ pc' = "done"
    /\ UNCHANGED <<kind, top, docx_o, frast_o, invoked>>
    /\ UNCHANGED <<pdf_vars, img_vars, race_vars>>

\* a configuration raised: the executor joins its tasks, then the handler
FbMapAbort ==
    /\ pc = "fb_map_abort"
    /\ \A j \in Configs : Finished(cfg[j])
    /\ fb_ret' = FallbackOnError("image_to_string")
    /\ ret' = PdfReturnFallback(fb_ret')
    /\ pc' = "done"
    /\ UNCHANGED <<kind, top, docx_o, frast, frast_o, invoked>>
    /\ UNCHANGED <<pdf_vars, img_vars, race_vars>>

\* the return statement after the race
FbReturn ==
    /\ pc = "fb_best"
    /\ fb_ret' = Returned(FallbackText(best_text))
    /\ ret' = PdfReturnFallback(fb_ret')
    /\ pc' = "done"
    /\ UNCHANGED <<kind, top, docx_o, frast, frast_o, invoked>>
    /\ UNCHANGED <<pdf_vars, img_vars, race_vars>>

------------------------------------------------------------------------------
(* extract_from_image *)

ImgOnTimeout == Raised("Image processing timed out")
ImgOnError == Raised("Failed to extract text from image")

\* run(Image.open, file_path)
ImgOpenSubmit ==
    /\ kind = "image" /\ pc = "start"
    /\ \E hangs \in BOOLEAN : iopen' = Submit(hangs)
    /\ pc' = "img_open_wait"
    /\ invoked' = invoked \cup {"Image.open"}
    /\ UNCHANGED <<kind, top, docx_o, iopen_o, ret>>
    /\ UNCHANGED <<pdf_vars, fb_vars, race_vars>>

\* it returns the image in time; preprocess_image, and the race starts
ImgOpenReturns ==
    /\ pc = "img_open_wait" /\ CanFinishInTime(iopen)
    /\ iopen' = FinishInTime(iopen)
    /\ iopen_o' = Returned(<<>>)
    /\ cfg' = [i \in Configs |-> PendingTask]
    /\ pc' = "img_map"
    /\ UNCHANGED <<kind, top, docx_o, cresults, best_text, ret, invoked>>
    /\ UNCHANGED <<pdf_vars, fb_vars>>

\* it raises in time: `except Exception`, or `except TimeoutError` when
\* run() reports the exception as a timeout
ImgOpenRaises ==
    /\ pc = "img_open_wait" /\ CanFinishInTime(iopen)
    /\ iopen' = FinishInTime(iopen)
    /\ \E e \in WorkErrors :
        /\ iopen_o' = Raised(e)
        /\ ret' = IF ReportedAsTimeout(e) THEN ImgOnTimeout ELSE ImgOnError
    /\ pc' = "done"
    /\ UNCHANGED <<kind, top, docx_o, invoked>>
    /\ UNCHANGED <<pdf_vars, fb_vars, race_vars>>

\* the 30 s deadline elapses
ImgOpenDeadline ==
    /\ pc = "img_open_wait" /\ CanExpire(iopen)
    /\ iopen' = Expire(iopen)
    /\ iopen_o' = TimedOut
    /\ UNCHANGED <<kind, top, docx_o, pc, ret, invoked>>
    /\ UNCHANGED <<pdf_vars, fb_vars, race_vars>>

\* the abandoned open ends: `except TimeoutError`
ImgOpenLate ==
    /\ pc = "img_open_wait" /\ CanFinishLate(iopen)
    /\ iopen' = FinishLate(iopen)
    /\ ret' = ImgOnTimeout
    /\ pc' = "done"
    /\ UNCHANGED <<kind, top, docx_o, iopen_o, invoked>>
    /\ UNCHANGED <<pdf_vars, fb_vars, race_vars>>

\* a configuration raised: the executor joins its tasks, then `except Exception`
ImgMapAbort ==
    /\ pc = "img_map_abort"
    /\ \A j \in Configs : Finished(cfg[j])
    /\ ret' = ImgOnError
    /\ pc' = "done"
    /\ UNCHANGED <<kind, top, docx_o, invoked>>
    /\ UNCHANGED <<pdf_vars, fb_vars, img_vars, race_vars>>

\* if not best_text.strip(): raise Exception("No text found in image");
\* return best_text.strip()
ImgReturn ==
    /\ pc = "img_best"
    /\ ret' = IF strip(best_text) = <<>> THEN ImgOnError
              ELSE Returned(strip(best_text))
    /\ pc' = "done"
    /\ UNCHANGED <<kind, top, docx_o, invoked>>
    /\ UNCHANGED <<pdf_vars, fb_vars, img_vars, race_vars>>

------------------------------------------------------------------------------
(* extract_text and extract_from_docx *)

\* What docx2txt.process may return.
DocxTexts == {<<>>, <<SP, NL>>, <<"a">>, <<SP, "b", NL>>}

\* raise Exception(f"Text extraction failed: {str(e)}")
ExtractTextOnError == Raised("Text extraction failed")

\* extract_from_docx after docx2txt.process returned: blank text raises
\* "No text found in DOCX file", which its own handler raises again
DocxOnError == Raised("Failed to extract text from DOCX")
DocxResultBad(text) == Returned(strip(text))
DocxResult(text) ==
    IF strip(text) = <<>> THEN DocxOnError ELSE Returned(strip(text))

\* return text, or the handler of extract_text's try
ExtractTextResult(r) ==
    IF r.oc = "return" THEN Returned(r.text) ELSE ExtractTextOnError

all_extractor_vars == <<pdf_vars, fb_vars, img_vars, race_vars>>

\* if not os.path.exists(file_path): raise FileNotFoundError(...)
ExtractTextNotFound ==
    /\ kind = "missing" /\ pc = "start"
    /\ top' = Raised("File not found")
    /\ pc' = "done"
    /\ UNCHANGED <<kind, docx_o, ret, invoked, all_extractor_vars>>

\* else: raise ValueError(f"Unsupported file format: {ext}"), inside the try
ExtractTextUnsupportedAsDocx ==
    /\ kind = "unsupported" /\ pc = "start"
    /\ docx_o' = Raised("docx2txt.process")
    /\ invoked' = invoked \cup {"docx2txt.process"}
    /\ top' = ExtractTextOnError
    /\ pc' = "done"
    /\ UNCHANGED <<kind, ret, all_extractor_vars>>
ExtractTextUnsupported ==
    /\ kind = "unsupported" /\ pc = "start"
    /\ top' = ExtractTextOnError
    /\ pc' = "done"
    /\ UNCHANGED <<kind, docx_o, ret, invoked, all_extractor_vars>>

\* extract_from_docx: docx2txt.process returns text, or raises
ExtractFromDocx ==
    /\ kind = "docx" /\ pc = "start"
    /\ invoked' = invoked \cup {"docx2txt.process"}
    /\ \/ \E text \in DocxTexts :
            /\ docx_o' = Returned(text)
            /\ ret' = DocxResult(text)
       \/ /\ docx_o' = Raised("docx2txt.process")
          /\ ret' = DocxOnError
    /\ pc' = "done"
    /\ UNCHANGED <<kind, top, all_extractor_vars>>

\* the extractor that extract_text called has returned or raised
ExtractTextEnds ==
    /\ kind \in {"pdf", "image", "docx"} /\ pc = "done"
    /\ top.oc = "none"
    /\ top' = ExtractTextResult(ret)
    /\ UNCHANGED <<kind, docx_o, pc, ret, invoked, all_extractor_vars>>

------------------------------------------------------------------------------
(* Specification *)

Next ==
    \/ PdfEmbedded
    \/ PdfConvertSubmit
    \/ PdfConvertReturns
    \/ PdfConvertRaises
    \/ PdfConvertDeadline
    \/ PdfConvertLate
    \/ \E i \in Pages : PageStart(i)
    \/ \E i \in Pages : PagePrimaryReturns(i)
    \/ \E i \in Pages : PageSecondaryReturns(i)
    \/ \E i \in Pages : PageRaises(i)
    \/ \E i \in Pages : PageDeadline(i)
    \/ \E i \in Pages : PageLate(i)
    \/ \E i \in Pages : PdfMapRaise(i)
    \/ PdfMapAbort
    \/ PdfMapDone
    \/ PdfDecide
    \/ FbConvertSubmit
    \/ FbConvertReturns
    \/ FbConvertRaises
    \/ FbConvertDeadline
    \/ FbConvertLate
    \/ \E i \in Configs : CfgStart(i)
    \/ \E i \in Configs : CfgReturns(i)
    \/ \E i \in Configs : CfgRaises(i)
    \/ \E i \in Configs : CfgDeadline(i)
    \/ \E i \in Configs : CfgLate(i)
    \/ \E i \in Configs : RaceRaise(i)
    \/ RaceDone
    \/ FbMapAbort
    \/ FbReturn
    \/ ImgOpenSubmit
    \/ ImgOpenReturns
    \/ ImgOpenRaises
    \/ ImgOpenDeadline
    \/ ImgOpenLate
    \/ ImgMapAbort
    \/ ImgReturn
    \/ ExtractTextNotFound
    \/ ExtractTextUnsupported
    \/ ExtractFromDocx
    \/ ExtractTextEnds

Spec == Init /\ [][Next]_vars

\* Threads that can run do run: a step that stays possible is taken.
FairSpec == Spec /\ WF_vars(Next)

------------------------------------------------------------------------------
(* Properties *)

\* every `with timeout(...)` block of the call
AllRuns ==
    {rast, frast, iopen} \cup {page[i].run : i \in Pages}
        \cup {cfg[i].run : i \in Configs}

\* the text a finished task's recognizer calls produced, from its outcomes
Recognized(t) == IF t.o2.oc = "return" THEN t.o2.text ELSE t.o1.text
TaskTimedOut(t) == t.o1.oc = "timeout" \/ t.o2.oc = "timeout"
TaskRaised(t) == t.o1.oc = "raise" \/ t.o2.oc = "raise"

\* what a configuration contributes to its race: its text, "" on a timeout
Contribution(t) == IF t.o1.oc = "return" THEN t.o1.text ELSE <<>>
TrimmedLen(t) == Len(strip(t))

SkippedPageText(i) ==
    <<"--- Page ", PageNo[i], " ---", NL, "[OCR timeout - page skipped]">>
RecognizedPageText(i, text) ==
    <<"--- Page ", PageNo[i], " ---", NL>> \o strip(text)

\* C1: once the deadline of a `with timeout(seconds) as run` block has
\* elapsed with the submitted work unfinished, the caller is not waiting for
\* that work: control is back after the block.
C1_CallerNotBlockedPastDeadline ==
    \A r \in AllRuns : ~(r.st = "joining" /\ r.work # "finished")

\* C2: every call of extract_from_pdf eventually returns text or raises,
\* whatever the rasterizer and recognizer calls do, a call that never
\* returns included.
C2_PdfCallEnds == (kind = "pdf") ~> (pc = "done" /\ ret.oc # "none")

\* C3: if a page of the primary fan-out ended with the timeout placeholder,
\* the call of extract_from_pdf ends by returning the value that
\* extract_from_pdf_fallback returned.
C3_SkippedPageMeansFallbackResult ==
    (pc = "done" /\ page_skipped) =>
        /\ fb_ret.oc = "return"
        /\ ret = fb_ret

\* C4: when the embedded text is non-blank, extract_from_pdf returns it
\* verbatim, and no rasterizer, recognizer or fallback is invoked.
C4_EmbeddedShortCircuit ==
    (embedded.oc # "raise" /\ strip(embedded.text) # <<>>) =>
        /\ ret = [oc |-> "return", text |-> embedded.text]
        /\ invoked = {}
        /\ rast = IdleRun /\ frast = IdleRun
        /\ \A i \in Pages : page[i].pc = "none"
        /\ \A i \in Configs : cfg[i].pc = "none"

C4_Witness ==
    /\ kind = "pdf" /\ pc = "done"
    /\ embedded.oc # "raise"
    /\ strip(embedded.text) # <<>>
    /\ strip(embedded.text) # embedded.text
    /\ ret.oc = "return"

\* C5: the text a race selects is the contribution of the configuration
\* whose trimmed length is greatest, the earliest such configuration in the
\* list, whatever the order in which the attempts completed.
C5_RaceSelectsFirstLongest ==
    pc \in {"fb_best", "img_best"} \/ (pc = "done" /\ cresults # <<>>) =>
        \E i \in Configs :
            /\ best_text = Contribution(cfg[i])
            /\ \A j \in Configs :
                TrimmedLen(Contribution(cfg[j])) <= TrimmedLen(Contribution(cfg[i]))
            /\ \A j \in 1..(i - 1) :
                TrimmedLen(Contribution(cfg[j])) < TrimmedLen(Contribution(cfg[i]))

C5_Witness ==
    /\ pc = "img_best"
    /\ cfg[1].o1.oc = "timeout"
    /\ Contribution(cfg[2]) = <<SP, "b", "b", NL>>
    /\ Contribution(cfg[3]) = <<"a">>
    /\ Contribution(cfg[4]) = <<"a", "a">>
    /\ best_text = <<SP, "b", "b", NL>>

\* C6: a configuration whose recognizer call times out or raises
\* contributes the empty string: the race completes with one result for
\* every configuration, and that configuration's result is "".
C6_FailedConfigContributesEmpty ==
    pc = "done" =>
        \A i \in Configs :
            (cfg[i].o1.oc \in {"timeout", "raise"}) =>
                /\ Len(cresults) = NumConfigs
                /\ cresults[i] = <<>>

\* C7: every page task of the fan-out ends with a page result, whatever its
\* recognizer calls do; a page whose recognizer raised does not end the call
\* of extract_from_pdf with an error.
C7_EveryPageYieldsResult ==
    /\ \A i \in Pages : page[i].res.oc # "raise"
    /\ (pc = "done" /\ \E i \in Pages : TaskRaised(page[i])) => ret.oc = "return"

\* C8: a page whose recognizer call timed out yields the marker of its own
\* page number followed by the placeholder, and in the joined list every
\* page's result stands at its own position and is what that page's own
\* recognizer calls determine.
C8_SkippedPageAndSiblings ==
    /\ \A i \in Pages :
        (page[i].pc = "done" /\ TaskTimedOut(page[i])) =>
            page[i].res = [oc |-> "return", text |-> SkippedPageText(i)]
    /\ pc = "pdf_joined" =>
        /\ Len(results) = images
        /\ \A j \in 1..images :
            /\ TaskTimedOut(page[j]) => results[j] = SkippedPageText(j)
            /\ (~TaskTimedOut(page[j]) /\ ~TaskRaised(page[j])) =>
                    results[j] = RecognizedPageText(j, Recognized(page[j]))

C8_Witness ==
    /\ pc = "pdf_joined" /\ images = 3
    /\ page[1].o1 = [oc |-> "return", text |-> <<"a">>]
    /\ page[2].o1.oc = "timeout"
    /\ page[3].o1.oc = "return" /\ page[3].o2 = [oc |-> "return", text |-> <<SP, "b", NL>>]
    /\ results[2] = SkippedPageText(2)

C10_FallbackNeverRaises ==
    /\ fb_ret.oc \in {"none", "return"}
    /\ fb_ret.oc = "return" =>
        /\ pc = "done" /\ ret = fb_ret
        /\ fb_ret.text # <<>>
        /\ \/ fb_ret.text = <<"--- Page 1 ---", NL,
                "[Text extraction failed - please try a different document format]">>
           \/ /\ fb_ret.text = <<"--- Page 1 ---", NL, "[Unable to extract text]">>
              /\ \A i \in Configs : cfg[i].pc = "done" /\ strip(Contribution(cfg[i])) = <<>>
           \/ \E i \in Configs :
                /\ strip(Contribution(cfg[i])) # <<>>
                /\ \A j \in Configs :
                    TrimmedLen(Contribution(cfg[j])) <= TrimmedLen(Contribution(cfg[i]))
                /\ fb_ret.text = <<"--- Page 1 (Fallback Method) ---", NL>>
                                    \o strip(Contribution(cfg[i]))
    /\ (kind = "pdf" /\ pc \in {"fb_convert", "fb_convert_wait", "fb_map",
                               "fb_map_abort", "fb_best"}) => ret.oc = "none"

C10_Witness ==
    /\ pc = "done"
    /\ \E i \in Configs : cfg[i].res.oc = "raise"
    /\ \E i \in Configs : cfg[i].o1.oc = "timeout" /\ cfg[i].pc = "done"
    /\ fb_ret = [oc |-> "return",
                 text |-> <<"--- Page 1 ---", NL,
                   "[Text extraction failed - please try a different document format]">>]


\* the call of extract_from_pdf returned the text of its primary path
PrimaryReturned ==
    /\ kind = "pdf" /\ pc = "done" /\ ret.oc = "return"
    /\ embedded.oc # "return"
    /\ "extract_from_pdf_fallback" \notin invoked

\* pages 1..n, each under its own marker, separated by newlines
RECURSIVE PagesInOrder(_)
PagesInOrder(n) ==
    IF n = 0 THEN <<>>
    ELSE IF n = 1 THEN RecognizedPageText(1, Recognized(page[1]))
    ELSE PagesInOrder(n - 1) \o <<NL>>
            \o RecognizedPageText(n, Recognized(page[n]))

\* C11: the primary result is the pages 1..n in increasing order, one marker
\* a rasterized page, each followed by that page's own recognized text
\* (trimmed; the whole text is trimmed at its end), whatever the order in
\* which the page tasks completed.
C11_PrimaryResultInPageOrder ==
    PrimaryReturned =>
        /\ images >= 1
        /\ ret.text = strip(PagesInOrder(images))

C11_Witness ==
    /\ PrimaryReturned /\ images = 3
    /\ page[1].o1 = [oc |-> "return", text |-> <<"a", "a">>]
    /\ page[2].o1 = [oc |-> "return", text |-> <<SP, "b", NL>>]
    /\ page[3].o2 = [oc |-> "return", text |-> <<"a">>]

\* page i's task ended with a value, and what it recognized is blank after its
\* primary and secondary attempts
PageBlank(i) ==
    /\ page[i].pc = "done"
    /\ ~TaskTimedOut(page[i]) /\ ~TaskRaised(page[i])
    /\ page[i].o1.oc = "return"
    /\ strip(Recognized(page[i])) = <<>>

\* C12: when every rasterized page's recognized text is blank after its
\* primary and secondary attempts, the text extract_from_pdf returns is the
\* fallback pipeline's, so the fallback has been invoked.
C12_AllBlankPagesFallBack ==
    ( /\ kind = "pdf" /\ pc = "done" /\ ret.oc = "return"
      /\ embedded.oc # "return"
      /\ "convert_from_path" \in invoked
      /\ images >= 1
      /\ \A i \in 1..images : PageBlank(i) )
    => "extract_from_pdf_fallback" \in invoked

\* C13: once control has left a `with timeout(...)` block, with a value, with
\* the timeout signal or with the work's own failure, the work submitted
\* through the block is no longer in flight: the worker has been joined.
C13_NoWorkInFlightAfterBlock ==
    \A r \in AllRuns : r.st = "left" => r.work = "finished"

C13_Witness ==
    /\ rast.st = "left" /\ rast_o.oc = "return"
    /\ images >= 2
    /\ page[1].run.st = "left" /\ page[1].o1.oc = "timeout"
    /\ page[2].run.st = "left" /\ page[2].o1.oc = "raise"

\* the image's configuration race ended and every configuration's text is blank
ImageBlank ==
    /\ kind = "image" /\ pc = "done"
    /\ \A j \in Configs : cfg[j].pc = "done" /\ strip(cfg[j].res.text) = <<>>

\* C14: extract_text never returns an empty or whitespace-only text: what it
\* returns is non-blank for a PDF, an image and a .docx alike, and a .docx or
\* an image whose extraction is blank ends in a failure.
C14_NoBlankSuccess ==
    /\ top.oc = "return" => strip(top.text) # <<>>
    /\ ( kind = "docx" /\ docx_o.oc = "return" /\ strip(docx_o.text) = <<>> )
        => ( ret = DocxOnError /\ top.oc # "return" )
    /\ ImageBlank => ( ret = ImgOnError /\ top.oc # "return" )
    /\ ( kind = "pdf" /\ pc = "done" /\ ret.oc = "return" )
        => strip(ret.text) # <<>>

C14_Witness ==
    /\ kind = "docx"
    /\ docx_o = Returned(<<SP, NL>>)
    /\ top = ExtractTextOnError

\* extract_from_pdf returned a text
PdfReturned == kind = "pdf" /\ pc = "done" /\ ret.oc = "return"

\* the text holds a page marker with the `(Fallback Method)` suffix
HasFallbackSuffix(t) ==
    \E k \in 1..Len(t) : t[k] = "--- Page 1 (Fallback Method) ---"

\* C15 as stated: a text returned by extract_from_pdf has the
\* `(Fallback Method)` suffix in its page marker exactly when the fallback
\* pipeline produced it.
C15_SuffixIffFallbackUsed ==
    PdfReturned =>
        ( HasFallbackSuffix(ret.text)
            <=> "extract_from_pdf_fallback" \in invoked )

\* C15, amended: the suffix is in the returned text exactly when the fallback
\* pipeline produced it from recognized, non-blank text, and then the text is
\* the suffixed marker followed by that text; the fallback's two placeholder
\* results carry the plain `--- Page 1 ---` marker; no text of the primary
\* path or of the embedded-text path has the suffix.
C15_SuffixIffFallbackRecognizedText ==
    PdfReturned =>
        /\ HasFallbackSuffix(ret.text)
            <=> ( "extract_from_pdf_fallback" \in invoked
                  /\ strip(best_text) # <<>> )
        /\ HasFallbackSuffix(ret.text)
            => ret.text = <<"--- Page 1 (Fallback Method) ---", NL>>
                            \o strip(best_text)
        /\ ( "extract_from_pdf_fallback" \in invoked
             /\ ~HasFallbackSuffix(ret.text) )
            => ret.text \in {FallbackUnableText, FallbackFailedText}

C15_Witness ==
    /\ PdfReturned
    /\ "extract_from_pdf_fallback" \in invoked
    /\ \A j \in Configs : cfg[j].pc = "done"
    /\ ret.text = FallbackUnableText

\* no collaborator has been called and no bounded block has been entered
NothingInvoked ==
    /\ invoked = {}
    /\ \A r \in AllRuns : r = IdleRun
    /\ embedded.oc = "none" /\ docx_o.oc = "none" /\ ret.oc = "none"
    /\ \A i \in Pages : page[i].pc = "none"
    /\ \A j \in Configs : cfg[j].pc = "none"

\* C16: for a path that does not exist or an extension that is not supported,
\* extract_text raises without calling any extractor, rasterizer or
\* recognizer, and without any retry or fallback: its only step is the raise.
C16_InputErrorsFailFast ==
    kind \in {"missing", "unsupported"} =>
        /\ NothingInvoked
        /\ pc \in {"start", "done"}
        /\ pc = "start" => top.oc = "none"
        /\ ( pc = "done" /\ kind = "missing" ) => top = Raised("File not found")
        /\ ( pc = "done" /\ kind = "unsupported" ) => top = ExtractTextOnError

C16_Witness ==
    /\ kind = "unsupported" /\ pc = "done"
    /\ top = ExtractTextOnError
    /\ NothingInvoked

\* the secondary recognizer call of a page task has been submitted
SecondaryMade(t) == t.pc = "secondary" \/ t.o2.oc # "none"
\* the primary recognizer call returned blank text within its deadline
PrimaryBlankInTime(t) == t.o1.oc = "return" /\ strip(t.o1.text) = <<>>

\* C17: a page task makes its secondary recognizer call exactly when its
\* primary call returned blank text within its deadline, hence only after
\* the primary call has completed; when the primary text is non-blank the
\* task makes no other call and its result is the primary text under the
\* page's marker.
C17_PageEscalation ==
    \A i \in Pages :
        /\ SecondaryMade(page[i]) <=> PrimaryBlankInTime(page[i])
        /\ ( page[i].o1.oc = "return" /\ strip(page[i].o1.text) # <<>> )
            => /\ page[i].pc = "done"
               /\ page[i].o2.oc = "none"
               /\ page[i].res = Returned(PageText(i, page[i].o1.text))

C17_Witness ==
    /\ images >= 2
    /\ page[1].pc = "done" /\ page[1].o1 = Returned(<<SP>>)
    /\ page[1].o2 = Returned(<<"a">>)
    /\ page[1].res = Returned(PageText(1, <<"a">>))
    /\ page[2].pc = "done" /\ page[2].o1 = Returned(<<"a", "a">>)

\* C18: the runner reports its timeout signal only when the deadline elapsed
\* before the work completed; a work that raises within its deadline is
\* reported as that failure: it never becomes a page's timeout placeholder,
\* a configuration's empty text, or a "timed out" failure of the call.
C18_TimeoutSignalOnlyAfterDeadline ==
    /\ \A i \in Pages :
        page[i].res = Returned(PageSkipped(i)) => TaskTimedOut(page[i])
    /\ \A j \in Configs :
        cfg[j].o1.oc = "raise" => cfg[j].res.oc # "return"
    /\ ret = PdfOnTimeout => rast_o.oc = "timeout"
    /\ ret = ImgOnTimeout => iopen_o.oc = "timeout"

\* every page task of the primary fan-out has ended and has been joined
PagesJoined ==
    /\ \A i \in 1..images :
        /\ page[i].pc = "done"
        /\ page[i].run = [st |-> "left", work |-> "finished"]
    /\ \A i \in Pages : Finished(page[i])

\* the step in which extract_from_pdf calls extract_from_pdf_fallback
FallbackInvokedNow ==
    /\ "extract_from_pdf_fallback" \notin invoked
    /\ "extract_from_pdf_fallback" \in invoked'

\* C19: within one extract_from_pdf call the fallback pipeline is invoked at
\* most once, and only after every page task of the primary fan-out has been
\* joined; its rasterization and its recognizer calls start only after that
\* invocation, and its rasterization is submitted once.
C19_FallbackOnceAfterJoin ==
    [][ /\ FallbackInvokedNow =>
            /\ pc = "pdf_joined" /\ PagesJoined
            /\ frast = IdleRun
            /\ \A j \in Configs : cfg[j].pc = "none"
        /\ ( pc' = "fb_convert" /\ pc # "fb_convert" ) => FallbackInvokedNow
        /\ ( kind = "pdf" /\ frast.st = "idle" /\ frast'.st # "idle" )
            => ( "extract_from_pdf_fallback" \in invoked
                 /\ \A i \in Pages : page[i].pc = "none" )
        /\ frast.st # "idle" => frast'.st # "idle"
        /\ ( kind = "pdf" /\ \E j \in Configs :
                                cfg[j].pc = "none" /\ cfg'[j].pc # "none" )
            => ( "extract_from_pdf_fallback" \in invoked
                 /\ \A i \in Pages : page[i].pc = "none" )
      ]_vars

C19_Witness ==
    /\ kind = "pdf" /\ pc = "fb_map"
    /\ "extract_from_pdf_fallback" \in invoked
    /\ images >= 2 /\ page_skipped
    /\ \E j \in Configs : cfg[j].pc = "running"

\* a step after the embedded-text attempt failed: rasterization raised or
\* timed out, or a page task raised
LaterFailure ==
    \/ rast_o.oc \in {"raise", "timeout"}
    \/ \E i \in Pages : page[i].pc = "raised"

\* C20: when the embedded-text attempt raises, extract_from_pdf goes on as it
\* does after blank embedded text: it submits the rasterization, and raises
\* to its caller only for a failure of a later step.
C20_EmbeddedFailureNotSurfaced ==
    /\ embedded.oc = "raise" =>
        /\ kind = "pdf" /\ pc # "start"
        /\ pc = "pdf_convert" \/ "convert_from_path" \in invoked
        /\ ret.oc = "raise" =>
            ( ret \in {PdfOnTimeout, PdfOnError} /\ LaterFailure )
    /\ ( embedded.oc \in {"raise", "blank"} /\ pc = "pdf_convert" ) =>
        ( ret.oc = "none" /\ invoked = {} /\ rast = IdleRun )

C20_Witness ==
    /\ embedded.oc = "raise"
    /\ PrimaryReturned
    /\ ret.text = PageText(1, <<"a">>)
    /\ top = Returned(PageText(1, <<"a">>))

====
